---------------------------- MODULE Spec2Model ----------------------------
(***************************************************************************)
(* Chronos attendance system: the AdminView shift reconstruction           *)
(* (calculateShifts), the ClockView geofence status, the express server    *)
(* and its attendance table, the App view switch and the Netlify handler.  *)
(*                                                                         *)
(* The specifications of this module, one per component:                   *)
(*   SpecShifts  - AdminView: the logs fetched from /api/admin/logs and    *)
(*                 the shifts calculateShifts derives from them on render; *)
(*   SpecClock   - ClockView: camera and geolocation callbacks, the        *)
(*                 geofence status and the /api/clock submissions;         *)
(*   SpecServer  - the routes of createApp over the attendance table;      *)
(*   SpecCapture - ClockView submitting to the /api/clock route;           *)
(*   SpecApp     - App and LoginView: login, logout and the view switch;   *)
(*   SpecNetlify - overlapping invocations of the Netlify handler.         *)
(***************************************************************************)
EXTENDS Integers, Sequences, FiniteSets, TLC

VARIABLES
    \* ---- AdminView (src/unnamed/part_000, 483-534)
    logs,          \* useState<AttendanceLog[]>([]) (484)
    adminLoading,  \* useState(true) (485)
    sortedLogs,    \* local of the last calculateShifts run (510)
    scan,          \* the accumulator (lastIn, shifts) before and after each
                   \* forEach iteration of the last run (511-530)
    shifts,        \* const shifts = calculateShifts() (534)
    \* ---- ClockView (src/unnamed/part_000, 256-356)
    location,      \* useState(null): <<>> is null, <<c>> is the coords c (259)
    gpsStatus,     \* useState('Searching') (260)
    geoState,      \* getCurrentPosition: "pending", "success" or "error" (289)
    cameraError,   \* useState(null): <<>> is null, <<msg>> the message (265)
    cameraState,   \* getUserMedia: "pending", "granted" or "failed" (274)
    loading,       \* useState(false) (261)
    message,       \* useState(null): <<>> is null, <<m>> the message (262)
    inflight,      \* the /api/clock request awaiting its response: <<>> or <<body>>
    requests,      \* every body sent to /api/clock so far, in order
    answered,      \* the status the server answered inflight with: <<>> or <<status>>
    \* ---- the server (src/unnamed/part_002)
    attendance,    \* the attendance table, in rowid order (26-36)
    serverNow,     \* CURRENT_TIMESTAMP and Date.now(): TimeStamps index
    uploads,       \* the photo files written to uploadsDir (93)
    photoError,    \* the last /api/clock logged "Failed to save photo" (95)
    response,      \* the last response sent and the request it answers:
                   \* route, req (the body), status, rows
    \* ---- App and LoginView (src/unnamed/part_000, 58-191)
    user,          \* useState<User | null>(null): <<>> or <<u>> (59)
    view,          \* useState('login') (60)
    darkMode,      \* useState(false) (61)
    employeeId,    \* LoginView useState('') (164)
    pin,           \* LoginView useState('') (165)
    loginError,    \* LoginView useState('') (166)
    loginInflight, \* the /api/login request awaiting its response: <<>> or
                   \* <<body>>; LoginView's loading (167) while it is set
    exiting,       \* the child AnimatePresence still shows while it plays
                   \* its exit animation, "none" when there is none (111-127)
    \* ---- the Netlify function (src/netlify/functions/server.ts)
    serverlessHandler,  \* let serverlessHandler: <<>> or <<h>> (4)
    invocation,         \* each handler invocation: "idle", "awaiting" or "done"
    servedBy,           \* the serverlessHandler each finished invocation called
    createAppCalls      \* how many times createApp() was called (8)

adminVars == <<logs, adminLoading, sortedLogs, scan, shifts>>
clockVars == <<location, gpsStatus, geoState, cameraError, cameraState,
               loading, message, inflight, requests>>
serverVars == <<attendance, serverNow, uploads, photoError, response>>
appVars == <<user, view, darkMode, employeeId, pin, loginError, loginInflight, exiting>>
netlifyVars == <<serverlessHandler, invocation, servedBy, createAppCalls>>
vars == <<adminVars, clockVars, answered, serverVars, appVars, netlifyVars>>

\* what the steps of one component leave alone
notAdminVars == <<clockVars, answered, serverVars, appVars, netlifyVars>>
notClockVars == <<adminVars, answered, serverVars, appVars, netlifyVars>>
notServerVars == <<adminVars, clockVars, answered, appVars, netlifyVars>>
notAppVars == <<adminVars, clockVars, answered, serverVars, netlifyVars>>
notNetlifyVars == <<adminVars, clockVars, answered, serverVars, appVars>>

----------------------------------------------------------------------------
(* Bounds *)

\* longest log list the admin fetch returns
MaxLogs == 4
\* timestamps of the attendance rows are SecOf(0) .. SecOf(MaxTime)
MaxTime == 3
\* positions lie up to MaxOffset metres of arc north or south of the office
MaxOffset == 201
\* clock submissions per ClockView mount
MaxRequests == 2
\* rows the attendance table grows to
MaxRows == 2
\* the server's clock runs from SecOf(0) to SecOf(MaxServerTime)
MaxServerTime == 1
\* invocations of the Netlify handler in one process
MaxInvocations == 4

----------------------------------------------------------------------------
(* Attendance rows as /api/admin/logs returns them *)

\* the seeded employees: id -> name
Employees == {"EMP001", "ADMIN01"}

EmployeeName(id) == IF id = "EMP001" THEN "John Doe" ELSE "Admin User"

Types == {"IN", "OUT"}

\* The timestamp column (CURRENT_TIMESTAMP, one-second resolution), as
\* seconds since the start of day 0: 09:00:00, 09:00:10, 17:00:00,
\* 17:00:10, then 18:30:00, 19:30:00, ...
SecOf(k) ==
    IF k < 4 THEN 32400 + (k \div 2) * 28800 + (k % 2) * 10
    ELSE 66600 + (k - 4) * 3600

TimeStamps == {SecOf(k) : k \in 0..MaxTime}

\* one row of SELECT a.*, e.name as employee_name ... JOIN employees
AttendanceLog(e, t, ty) ==
    [employee_id |-> e, employee_name |-> EmployeeName(e),
     timestamp |-> t, type |-> ty]

\* ORDER BY a.timestamp DESC: rows with equal timestamps come in any order
OrderByTimestampDesc(ts) ==
    \A i \in 1..(Len(ts) - 1) : ts[i] >= ts[i + 1]

----------------------------------------------------------------------------
(* calculateShifts, src/unnamed/part_000 508-532 *)

MsPerHour == 1000 * 60 * 60

MsPerDay == 24 * MsPerHour

\* new Date(timestamp).getTime(): milliseconds
getTime(timestamp) == timestamp * 1000

\* new Date(ts).toLocaleDateString(): the calendar day
toLocaleDateString(timestamp) == getTime(timestamp) \div MsPerDay

\* new Date(ts).toLocaleTimeString(): the time of day, to the second
toLocaleTimeString(timestamp) == (getTime(timestamp) % MsPerDay) \div 1000

\* fault: the comparator with its operands swapped
compareDescending(a, b) == getTime(b.timestamp) - getTime(a.timestamp)

\* the sort comparator (a, b) => getTime(a) - getTime(b)
compare(a, b) == getTime(a.timestamp) - getTime(b.timestamp)

\* Array.prototype.sort is stable: x goes after every element that does not
\* compare greater than it
RECURSIVE InsertSorted(_, _)
InsertSorted(s, x) ==
    IF s = <<>> THEN <<x>>
    ELSE IF compare(s[Len(s)], x) > 0
         THEN Append(InsertSorted(SubSeq(s, 1, Len(s) - 1), x), s[Len(s)])
         ELSE Append(s, x)

RECURSIVE StableSort(_)
StableSort(l) ==
    IF l = <<>> THEN <<>>
    ELSE InsertSorted(StableSort(SubSeq(l, 1, Len(l) - 1)), l[Len(l)])

\* fault: the logs scanned in the order the server listed them
sortUnsorted(l) == l

\* const sortedLogs = [...logs].sort(...)
sort(l) == StableSort(l)

\* hours.toFixed(2), in hundredths of an hour: the hundredth nearest to
\* durationMs / MsPerHour = durationMs / (100 * 36000), the sign handled
\* apart as toFixed does
toFixed2(durationMs) ==
    IF durationMs >= 0
    THEN (durationMs + (MsPerHour \div 200)) \div (MsPerHour \div 100)
    ELSE 0 - (((0 - durationMs) + (MsPerHour \div 200)) \div (MsPerHour \div 100))

\* fault: hours >= 8
isOvertimeAtLeast8(durationMs) == durationMs >= 8 * MsPerHour

\* hours > 8, with hours = durationMs / (1000 * 60 * 60)
isOvertime(durationMs) == durationMs > 8 * MsPerHour

\* the object pushed at 520-527; inLog and log are the two rows it was built
\* from (517, 513), kept beside the pushed fields
Shift(inLog, log) ==
    LET durationMs == getTime(log.timestamp) - getTime(inLog.timestamp)
    IN  [employee   |-> log.employee_name,
         date       |-> toLocaleDateString(inLog.timestamp),
         in         |-> toLocaleTimeString(inLog.timestamp),
         out        |-> toLocaleTimeString(log.timestamp),
         hours      |-> toFixed2(durationMs),
         isOvertime |-> isOvertime(durationMs),
         inLog      |-> inLog,
         log        |-> log]

\* the fields of the pushed object alone
Pushed(s) ==
    [employee |-> s.employee, date |-> s.date, in |-> s.in, out |-> s.out,
     hours |-> s.hours, isOvertime |-> s.isOvertime]

\* lastIn is a JS object: a function whose domain is its set of keys
Assign(obj, key, value) ==
    [k \in (DOMAIN obj) \cup {key} |-> IF k = key THEN value ELSE obj[k]]

Delete(obj, key) == [k \in (DOMAIN obj) \ {key} |-> obj[k]]

\* the accumulator of the scan: const shifts = [], const lastIn = {}
EmptyAcc == [lastIn |-> <<>>, shifts |-> <<>>]

\* fault: a pending IN is kept when a newer IN arrives
onInKeepFirst(acc, log) ==
    IF log.employee_id \in DOMAIN acc.lastIn THEN acc
    ELSE [acc EXCEPT !.lastIn = Assign(acc.lastIn, log.employee_id, log)]

\* lastIn[log.employee_id] = log
onIn(acc, log) ==
    [acc EXCEPT !.lastIn = Assign(acc.lastIn, log.employee_id, log)]

\* fault: an OUT falls back on the pending IN of any employee
pendingKeyAny(acc, log) ==
    IF log.employee_id \in DOMAIN acc.lastIn \/ DOMAIN acc.lastIn = {}
    THEN log.employee_id
    ELSE CHOOSE k \in DOMAIN acc.lastIn : TRUE

\* the key the OUT branch looks up and deletes: log.employee_id
pendingKey(acc, log) == log.employee_id

\* fault: the pending IN is kept after it has been paired
onOutKeepPending(acc, log) ==
    LET key == pendingKey(acc, log)
    IN  IF key \in DOMAIN acc.lastIn
        THEN [acc EXCEPT !.shifts = Append(acc.shifts, Shift(acc.lastIn[key], log))]
        ELSE acc

\* fault: an OUT without a pending IN pushes a shift of its own
onOutFabricate(acc, log) ==
    LET key == pendingKey(acc, log)
    IN  IF key \in DOMAIN acc.lastIn
        THEN [lastIn |-> Delete(acc.lastIn, key),
              shifts |-> Append(acc.shifts, Shift(acc.lastIn[key], log))]
        ELSE [acc EXCEPT !.shifts = Append(acc.shifts, Shift(log, log))]

\* log.type === 'OUT' && lastIn[log.employee_id]: push the shift, delete the key
onOut(acc, log) ==
    LET key == pendingKey(acc, log)
    IN  IF key \in DOMAIN acc.lastIn
        THEN [lastIn |-> Delete(acc.lastIn, key),
              shifts |-> Append(acc.shifts, Shift(acc.lastIn[key], log))]
        ELSE acc

\* one iteration of sortedLogs.forEach (513-530)
forEachStep(acc, log) ==
    IF log.type = "IN" THEN onIn(acc, log)
    ELSE IF log.type = "OUT" THEN onOut(acc, log)
    ELSE acc

\* the accumulator before the first iteration and after each one
RECURSIVE ScanTrace(_)
ScanTrace(sorted) ==
    IF sorted = <<>> THEN <<EmptyAcc>>
    ELSE LET before == ScanTrace(SubSeq(sorted, 1, Len(sorted) - 1))
         IN  Append(before, forEachStep(before[Len(before)], sorted[Len(sorted)]))

\* fault: the shifts returned in push order
reverseNot(s) == s

\* shifts.reverse()
reverse(s) == [i \in 1..Len(s) |-> s[Len(s) + 1 - i]]

\* return shifts.reverse(), shifts being what the last iteration left
Returned(trace) == reverse(trace[Len(trace)].shifts)

calculateShifts(l) == Returned(ScanTrace(sort(l)))

----------------------------------------------------------------------------
(* Geofence, src/unnamed/part_000 38-56 *)

\* A JS number of the geofence computation: NaN, or an angle.  An angle is
\* turns full turns (360 degrees, none for a coordinate in its range) plus
\* val; for a latitude val is in metres of arc along the office's meridian,
\* counted from the office.  Every position of this model lies on that
\* meridian, up to full turns of its latitude or longitude.
NaN == [nan |-> TRUE, val |-> 0, turns |-> 0]

Num(v) == [nan |-> FALSE, val |-> v, turns |-> 0]

\* a coordinate out of its range by k full turns
Turned(v, k) == [nan |-> FALSE, val |-> v, turns |-> k]

\* { lat: 51.5074, lng: -0.1278 }: the origin of the model's coordinates
OFFICE_COORDS == [lat |-> Num(0), lng |-> Num(0)]

\* metres
GEOFENCE_RADIUS == 200

Abs(x) == IF x < 0 THEN 0 - x ELSE x

\* Haversine distance in metres.  On one meridian (lon1 = lon2) the term
\* a is sin^2(dphi/2) and c = 2 atan2(sqrt a, sqrt(1-a)) is |dphi|, so that
\* R * c is the length of the arc between the two latitudes; any NaN
\* argument makes every term, and the result, NaN.  Full turns drop out:
\* sin^2(dphi/2) and sin^2(dlambda/2) have the period of one turn of dphi
\* and dlambda, and no argument is checked against its range.
getDistance(lat1, lon1, lat2, lon2) ==
    IF lat1.nan \/ lon1.nan \/ lat2.nan \/ lon2.nan THEN NaN
    ELSE Num(Abs(lat2.val - lat1.val))

\* JS a <= b: false when either side is NaN
LessEq(a, b) == ~a.nan /\ ~b.nan /\ a.val <= b.val

\* fault: dist < GEOFENCE_RADIUS
statusOfStrict(dist) ==
    IF ~dist.nan /\ dist.val < GEOFENCE_RADIUS THEN "OK" ELSE "Out of Range"

\* dist <= GEOFENCE_RADIUS ? 'OK' : 'Out of Range' (294)
statusOf(dist) ==
    IF LessEq(dist, Num(GEOFENCE_RADIUS)) THEN "OK" ELSE "Out of Range"

\* the readings getCurrentPosition can deliver: in range, NaN, or with the
\* latitude or the longitude one turn out of its range
Positions ==
    {[lat |-> Num(m), lng |-> OFFICE_COORDS.lng] : m \in (0 - MaxOffset)..MaxOffset}
    \cup {[lat |-> NaN, lng |-> OFFICE_COORDS.lng]}
    \cup {[lat |-> Turned(m, 1), lng |-> OFFICE_COORDS.lng] :
              m \in {0 - MaxOffset, 0, MaxOffset}}
    \cup {[lat |-> Num(m), lng |-> Turned(0, 1)] :
              m \in {0 - MaxOffset, 0, MaxOffset}}

----------------------------------------------------------------------------
(* ClockView, src/unnamed/part_000 256-356 *)

\* a value as JSON.stringify writes it: undefined drops the key, NaN becomes null
JsonAbsent == [kind |-> "absent", val |-> 0, turns |-> 0]

JsonNumber(x) ==
    IF x.nan THEN [kind |-> "null", val |-> 0, turns |-> 0]
    ELSE [kind |-> "number", val |-> x.val, turns |-> x.turns]

\* fault: the error callback reports the position as in range
statusOnGeoErrorOk == "OK"

\* fault: the error callback leaves the status at its initial value
statusOnGeoErrorSearching == "Searching"

\* the status the geolocation error callback sets (298)
statusOnGeoError == "Out of Range"

\* the body handleClock posts (335-342)
ClockBody(type, hasPhoto) ==
    [employeeId |-> "EMP001",
     type       |-> type,
     latitude   |-> IF location = <<>> THEN JsonAbsent ELSE JsonNumber(location[1].lat),
     longitude  |-> IF location = <<>> THEN JsonAbsent ELSE JsonNumber(location[1].lng),
     photo      |-> hasPhoto,
     gpsStatus  |-> gpsStatus]

----------------------------------------------------------------------------
(* AdminView: state after mount and the first render *)

InitAdmin ==
    /\ logs = <<>>
    /\ adminLoading = TRUE
    /\ sortedLogs = <<>>
    /\ scan = <<EmptyAcc>>
    /\ shifts = <<>>

\* the render that follows a state change: const shifts = calculateShifts()
Render(l) ==
    LET sorted == sort(l)
        trace  == ScanTrace(sorted)
    IN  /\ sortedLogs' = sorted
        /\ scan' = trace
        /\ shifts' = Returned(trace)

\* fetchLogs, the fetch answered: setLogs(data), finally setLoading(false)
FetchLogsOk ==
    /\ adminLoading
    /\ \E n \in 0..MaxLogs :
       \E ts \in [1..n -> TimeStamps] :
          /\ OrderByTimestampDesc(ts)
          /\ \E who \in [1..n -> Employees], ty \in [1..n -> Types] :
                LET data == [i \in 1..n |-> AttendanceLog(who[i], ts[i], ty[i])]
                IN  /\ logs' = data
                    /\ Render(data)
    /\ adminLoading' = FALSE
    /\ UNCHANGED notAdminVars

\* fetchLogs, the fetch or res.json() rejected: only setLoading(false)
FetchLogsFail ==
    /\ adminLoading
    /\ adminLoading' = FALSE
    /\ UNCHANGED <<logs, sortedLogs, scan, shifts>>
    /\ UNCHANGED notAdminVars

\* the admin view is left and entered again: a fresh AdminView
RemountAdmin ==
    /\ ~adminLoading
    /\ logs' = <<>>
    /\ adminLoading' = TRUE
    /\ Render(<<>>)
    /\ UNCHANGED notAdminVars

NextAdmin == FetchLogsOk \/ FetchLogsFail \/ RemountAdmin

----------------------------------------------------------------------------
(* ClockView: state after mount, both requests of the effect pending *)

InitClock ==
    /\ location = <<>>
    /\ gpsStatus = "Searching"
    /\ geoState = "pending"
    /\ cameraError = <<>>
    /\ cameraState = "pending"
    /\ loading = FALSE
    /\ message = <<>>
    /\ inflight = <<>>
    /\ requests = <<>>
    /\ answered = <<>>

\* getUserMedia resolved (275-278)
CameraGranted ==
    /\ cameraState = "pending"
    /\ cameraState' = "granted"
    /\ cameraError' = <<>>
    /\ UNCHANGED <<location, gpsStatus, geoState, loading, message, inflight, requests>>
    /\ UNCHANGED notClockVars

\* getUserMedia rejected (279-286)
CameraFailed ==
    /\ cameraState = "pending"
    /\ cameraState' = "failed"
    /\ \E why \in {"denied", "hardware"} : cameraError' = <<why>>
    /\ UNCHANGED <<location, gpsStatus, geoState, loading, message, inflight, requests>>
    /\ UNCHANGED notClockVars

\* the getCurrentPosition success callback (290-295), its reading in S
GeoSuccessIn(S) ==
    /\ geoState = "pending"
    /\ geoState' = "success"
    /\ \E coords \in S :
          /\ location' = <<coords>>
          /\ gpsStatus' = statusOf(getDistance(coords.lat, coords.lng,
                                               OFFICE_COORDS.lat, OFFICE_COORDS.lng))
    /\ UNCHANGED <<cameraError, cameraState, loading, message, inflight, requests>>
    /\ UNCHANGED notClockVars

GeoSuccess == GeoSuccessIn(Positions)

\* the getCurrentPosition error callback (296-299)
GeoError ==
    /\ geoState = "pending"
    /\ geoState' = "error"
    /\ gpsStatus' = statusOnGeoError
    /\ UNCHANGED <<location, cameraError, cameraState, loading, message, inflight, requests>>
    /\ UNCHANGED notClockVars

\* fault: the camera error path returns without setLoading(false)
HandleClockNoCameraStuck ==
    /\ ~loading
    /\ cameraError # <<>>
    /\ \E type \in Types : message' = <<"error: camera required">>
    /\ loading' = TRUE
    /\ UNCHANGED <<location, gpsStatus, geoState, cameraError, cameraState, inflight, requests>>
    /\ UNCHANGED notClockVars

\* handleClock with a camera error set: the message, no request (310-317)
HandleClockNoCamera ==
    /\ ~loading
    /\ cameraError # <<>>
    /\ \E type \in Types : message' = <<"error: camera required">>
    /\ loading' = FALSE
    /\ UNCHANGED <<location, gpsStatus, geoState, cameraError, cameraState, inflight, requests>>
    /\ UNCHANGED notClockVars

\* handleClock up to its await: the request is sent (310-343)
HandleClockSend ==
    /\ ~loading
    /\ cameraError = <<>>
    /\ Len(requests) < MaxRequests
    /\ \E type \in Types, hasPhoto \in BOOLEAN :
          /\ inflight' = <<ClockBody(type, hasPhoto)>>
          /\ requests' = Append(requests, ClockBody(type, hasPhoto))
    /\ loading' = TRUE
    /\ message' = <<>>
    /\ UNCHANGED <<location, gpsStatus, geoState, cameraError, cameraState>>
    /\ UNCHANGED notClockVars

\* handleClock after its await: res.ok, not ok, or the fetch rejected (345-355)
ClockResponse ==
    /\ inflight # <<>>
    /\ \E outcome \in {"success", "error: failed", "error: network"} :
          message' = <<outcome>>
    /\ loading' = FALSE
    /\ inflight' = <<>>
    /\ UNCHANGED <<location, gpsStatus, geoState, cameraError, cameraState, requests>>
    /\ UNCHANGED notClockVars

NextClock ==
    \/ CameraGranted \/ CameraFailed \/ GeoSuccess \/ GeoError
    \/ HandleClockNoCamera \/ HandleClockSend \/ ClockResponse

----------------------------------------------------------------------------
(* The server, src/unnamed/part_002 *)

\* the seeded employees (42-43): id -> pin, is_admin
EmployeePin(id) == IF id = "EMP001" THEN "1234" ELSE "9999"

EmployeeIsAdmin(id) == id = "ADMIN01"

\* { id: employee.id, name: employee.name, isAdmin: !!employee.is_admin } (72)
UserOf(id) == [id |-> id, name |-> EmployeeName(id), isAdmin |-> EmployeeIsAdmin(id)]

\* SELECT * FROM employees WHERE id = ? AND pin = ? (66): <<>> is no row
FindEmployee(id, p) ==
    IF id \in Employees /\ EmployeePin(id) = p THEN <<UserOf(id)>> ELSE <<>>

\* a body of /api/clock (part_000 335-342), its coordinates there or not
ClockRequest(e, ty, located, ph) ==
    [employeeId |-> e,
     type       |-> ty,
     latitude   |-> IF located THEN JsonNumber(OFFICE_COORDS.lat) ELSE JsonAbsent,
     longitude  |-> IF located THEN JsonNumber(OFFICE_COORDS.lng) ELSE JsonAbsent,
     photo      |-> ph,
     gpsStatus  |-> IF located THEN "OK" ELSE "Searching"]

\* the bodies /api/clock is posted in this component's specification:
\* with and without a photo, with and without coordinates, of both seeded
\* employees, of an unknown employee and of a type the table rejects
ServerBodies ==
    {ClockRequest("EMP001", "IN", TRUE, TRUE),
     ClockRequest("EMP001", "OUT", FALSE, FALSE),
     ClockRequest("ADMIN01", "IN", TRUE, FALSE),
     ClockRequest("EMP999", "IN", TRUE, FALSE),
     ClockRequest("EMP001", "BREAK", TRUE, FALSE)}

\* req.body of a GET
NoBody == [kind |-> "none"]

\* NULL in a column
SqlNull == [kind |-> "null", val |-> 0, turns |-> 0]

\* a parameter of run() as the column stores it: JSON null is NULL
Bound(x) == IF x.kind = "number" THEN x ELSE SqlNull

\* run() is handed undefined for a key the body lacks; whether the driver
\* then throws or binds NULL is not decided by this source: both happen
BindOutcomes(body) ==
    IF body.latitude.kind = "absent" \/ body.longitude.kind = "absent"
    THEN BOOLEAN ELSE {TRUE}

\* fault: the FOREIGN KEY of line 35 is not enforced
AcceptsAnyEmployee(body) == body.type \in Types

\* the constraints of the attendance table the INSERT must meet: NOT NULL
\* and FOREIGN KEY on employee_id (28, 35), CHECK on type (30)
Accepts(body) == body.employeeId \in Employees /\ body.type \in Types

\* fault: gps_status is left to a column default, the request's label lost
AttendanceRowDefaultStatus(table, body, photoPath, now) ==
    [id          |-> Len(table) + 1,
     employee_id |-> body.employeeId,
     timestamp   |-> SecOf(now),
     type        |-> body.type,
     latitude    |-> Bound(body.latitude),
     longitude   |-> Bound(body.longitude),
     photo_path  |-> photoPath,
     gps_status  |-> "Searching"]

\* the row the INSERT of 100-103 writes: id by AUTOINCREMENT, timestamp
\* by DEFAULT CURRENT_TIMESTAMP, the other columns from the request
AttendanceRow(table, body, photoPath, now) ==
    [id          |-> Len(table) + 1,
     employee_id |-> body.employeeId,
     timestamp   |-> SecOf(now),
     type        |-> body.type,
     latitude    |-> Bound(body.latitude),
     longitude   |-> Bound(body.longitude),
     photo_path  |-> photoPath,
     gps_status  |-> body.gpsStatus]

\* fault: INSERT OR REPLACE keyed by employee and type
InsertOrReplace(table, row) ==
    IF \E i \in DOMAIN table : table[i].employee_id = row.employee_id
                               /\ table[i].type = row.type
    THEN [i \in DOMAIN table |->
            IF table[i].employee_id = row.employee_id /\ table[i].type = row.type
            THEN row ELSE table[i]]
    ELSE Append(table, row)

\* INSERT INTO attendance (100-103)
Insert(table, row) == Append(table, row)

\* fault: the handler of src/unnamed/part_001 70-87, a failed photo write
\* leaves the handler before the INSERT
clockRouteNoCatch(body, writeOk, bindOk) ==
    LET saved     == body.photo /\ writeOk
        photoPath == IF saved THEN <<body.employeeId, serverNow>> ELSE <<>>
        ran       == bindOk /\ Accepts(body) /\ (body.photo => writeOk)
    IN  /\ uploads' = IF saved THEN uploads \cup {photoPath} ELSE uploads
        /\ photoError' = (body.photo /\ ~writeOk)
        /\ attendance' =
              IF ran THEN Insert(attendance, AttendanceRow(attendance, body, photoPath, serverNow))
              ELSE attendance
        /\ response' = [route |-> "clock", req |-> body,
                        status |-> IF ran THEN 200 ELSE 500, rows |-> <<>>]

\* POST /api/clock (84-106): the photo is written, or the failure logged
\* and photoPath reset to null (88-98); then the INSERT runs, and a
\* constraint or a binding it fails on leaves the route with a 500
clockRoute(body, writeOk, bindOk) ==
    LET saved     == body.photo /\ writeOk
        photoPath == IF saved THEN <<body.employeeId, serverNow>> ELSE <<>>
        ran       == bindOk /\ Accepts(body)
    IN  /\ uploads' = IF saved THEN uploads \cup {photoPath} ELSE uploads
        /\ photoError' = (body.photo /\ ~writeOk)
        /\ attendance' =
              IF ran THEN Insert(attendance, AttendanceRow(attendance, body, photoPath, serverNow))
              ELSE attendance
        /\ response' = [route |-> "clock", req |-> body,
                        status |-> IF ran THEN 200 ELSE 500, rows |-> <<>>]

\* FROM attendance a JOIN employees e ON a.employee_id = e.id (111-112)
JoinEmployees(table) ==
    SelectSeq(table, LAMBDA row : row.employee_id \in Employees)

\* SELECT a.*, e.name as employee_name (110)
LogRow(row) == row @@ ("employee_name" :> EmployeeName(row.employee_id))

\* a cell of the CSV: join(",") writes null as the empty string (128-135)
CsvCell(x) == IF x.kind = "null" THEN [kind |-> "empty", val |-> 0, turns |-> 0] ELSE x

\* one line of the CSV (128-135)
CsvLine(row) ==
    <<row.timestamp, EmployeeName(row.employee_id), row.type, row.gps_status,
      CsvCell(row.latitude), CsvCell(row.longitude)>>

\* ORDER BY a.timestamp DESC (113, 123): every order of rows that puts
\* later timestamps first
OrderByDesc(rows) ==
    {[i \in DOMAIN rows |-> rows[q[i]]] : q \in
        {q \in Permutations(DOMAIN rows) :
            \A i \in 1..(Len(rows) - 1) : rows[q[i]].timestamp >= rows[q[i + 1]].timestamp}}

InitServer ==
    /\ attendance = <<>>
    /\ serverNow = 0
    /\ uploads = {}
    /\ photoError = FALSE
    /\ response = [route |-> "none", req |-> NoBody, status |-> 0, rows |-> <<>>]

\* POST /api/login (61-82)
ServerLogin ==
    /\ \E id \in Employees \cup {"EMP999"}, p \in {"1234", "9999"} :
          LET employee == FindEmployee(id, p)
          IN  response' = [route |-> "login",
                           req |-> [employeeId |-> id, pin |-> p],
                           status |-> IF employee # <<>> THEN 200 ELSE 401,
                           rows |-> employee]
    /\ UNCHANGED <<attendance, serverNow, uploads, photoError>>
    /\ UNCHANGED notServerVars

\* POST /api/clock (84-106)
ServerClock ==
    /\ Len(attendance) < MaxRows
    /\ \E body \in ServerBodies, writeOk \in BOOLEAN :
       \E bindOk \in BindOutcomes(body) : clockRoute(body, writeOk, bindOk)
    /\ UNCHANGED serverNow
    /\ UNCHANGED notServerVars

\* GET /api/admin/logs (108-116)
ServerLogs ==
    /\ \E rows \in OrderByDesc(JoinEmployees(attendance)) :
          response' = [route |-> "logs", req |-> NoBody, status |-> 200,
                       rows |-> [i \in DOMAIN rows |-> LogRow(rows[i])]]
    /\ UNCHANGED <<attendance, serverNow, uploads, photoError>>
    /\ UNCHANGED notServerVars

\* GET /api/export (118-141)
ServerExport ==
    /\ \E rows \in OrderByDesc(JoinEmployees(attendance)) :
          response' = [route |-> "export", req |-> NoBody, status |-> 200,
                       rows |-> [i \in DOMAIN rows |-> CsvLine(rows[i])]]
    /\ UNCHANGED <<attendance, serverNow, uploads, photoError>>
    /\ UNCHANGED notServerVars

\* a second passes on the server's clock
ServerTick ==
    /\ serverNow < MaxServerTime
    /\ serverNow' = serverNow + 1
    /\ UNCHANGED <<attendance, uploads, photoError, response>>
    /\ UNCHANGED notServerVars

NextServer == ServerLogin \/ ServerClock \/ ServerLogs \/ ServerExport \/ ServerTick

----------------------------------------------------------------------------
(* ClockView posting to the server's /api/clock route *)

\* the readings of this specification: the edge of the geofence, the
\* far end, NaN and a longitude out of its range
CapturePositions ==
    {c \in Positions :
        \/ c.lat.nan
        \/ c.lng.turns # 0 /\ c.lat.val = 0
        \/ c.lat.turns = 0 /\ c.lng.turns = 0 /\ c.lat.val \in {GEOFENCE_RADIUS, MaxOffset}}

CaptureGeoSuccess == GeoSuccessIn(CapturePositions)

\* the request in flight reaches the route (part_002 84-106)
CaptureServerClock ==
    /\ inflight # <<>>
    /\ answered = <<>>
    /\ \E writeOk \in BOOLEAN :
       \E bindOk \in BindOutcomes(inflight[1]) :
          /\ clockRoute(inflight[1], writeOk, bindOk)
          /\ answered' = <<IF bindOk /\ Accepts(inflight[1]) THEN 200 ELSE 500>>
    /\ UNCHANGED serverNow
    /\ UNCHANGED <<adminVars, clockVars, appVars, netlifyVars>>

\* handleClock after its await (part_000 345-355): res.ok, not ok, or
\* the fetch rejected, with the request delivered or not
CaptureResponse ==
    /\ inflight # <<>>
    /\ \/ /\ answered # <<>>
          /\ message' = <<IF answered[1] = 200 THEN "success" ELSE "error: failed">>
       \/ message' = <<"error: network">>
    /\ loading' = FALSE
    /\ inflight' = <<>>
    /\ answered' = <<>>
    /\ UNCHANGED <<location, gpsStatus, geoState, cameraError, cameraState, requests>>
    /\ UNCHANGED <<adminVars, serverVars, appVars, netlifyVars>>

NextCapture ==
    \/ CameraGranted \/ CaptureGeoSuccess \/ GeoError
    \/ HandleClockSend \/ CaptureServerClock \/ CaptureResponse
    \/ ServerLogs \/ ServerExport

----------------------------------------------------------------------------
(* App and LoginView, src/unnamed/part_000 58-191 *)

\* what the login form is filled with
IdInputs == {"", "EMP001", "ADMIN01", "EMP999"}

PinInputs == {"", "1234", "9999"}

\* the child of AnimatePresence App's render yields (112-126)
Rendered(v, u) ==
    IF v = "login" THEN "login"
    ELSE IF v = "clock" /\ u # <<>> THEN "clock"
    ELSE IF v = "admin" /\ u # <<>> /\ u[1].isAdmin THEN "admin"
    ELSE "none"

\* the child on screen: with mode="wait" the one that plays its exit
\* animation, and the rendered one only once that has finished (111)
OnScreen == IF exiting # "none" THEN exiting ELSE Rendered(view, user)

\* setUser / setView and the render that follows: a child that is no
\* longer rendered starts its exit animation, one rendered again while
\* it exits stays
SetAppState(u, v) ==
    /\ user' = u
    /\ view' = v
    /\ exiting' = IF exiting # "none"
                  THEN (IF Rendered(v, u) = exiting THEN "none" ELSE exiting)
                  ELSE IF Rendered(view, user) # Rendered(v, u)
                       THEN Rendered(view, user) ELSE "none"

InitApp ==
    /\ user = <<>>
    /\ view = "login"
    /\ darkMode = FALSE
    /\ employeeId = ""
    /\ pin = ""
    /\ loginError = ""
    /\ loginInflight = <<>>
    /\ exiting = "none"

\* onChange of the Employee ID input (213)
TypeEmployeeId ==
    /\ OnScreen = "login"
    /\ \E v \in IdInputs : employeeId' = v
    /\ UNCHANGED <<user, view, darkMode, pin, loginError, loginInflight, exiting>>
    /\ UNCHANGED notAppVars

\* onChange of the PIN input (229)
TypePin ==
    /\ OnScreen = "login"
    /\ \E v \in PinInputs : pin' = v
    /\ UNCHANGED <<user, view, darkMode, employeeId, loginError, loginInflight, exiting>>
    /\ UNCHANGED notAppVars

\* handleSubmit up to its await (169-179); both inputs are required and
\* the button is disabled while loading (216, 232, 246)
LoginSubmit ==
    /\ OnScreen = "login"
    /\ loginInflight = <<>>
    /\ employeeId # "" /\ pin # ""
    /\ loginInflight' = <<[employeeId |-> employeeId, pin |-> pin, live |-> TRUE]>>
    /\ loginError' = ""
    /\ UNCHANGED <<user, view, darkMode, employeeId, pin, exiting>>
    /\ UNCHANGED notAppVars

\* handleSubmit after its await, the server's answer (180-185, 188-190):
\* onLogin(data.user) or setError(data.message); the setters of a
\* LoginView that has been unmounted do nothing
LoginAnswered ==
    /\ loginInflight # <<>>
    /\ LET employee == FindEmployee(loginInflight[1].employeeId, loginInflight[1].pin)
       IN  IF employee # <<>>
           THEN /\ SetAppState(employee, "clock")
                /\ UNCHANGED loginError
           ELSE /\ loginError' = IF loginInflight[1].live THEN "Invalid ID or PIN"
                                 ELSE loginError
                /\ UNCHANGED <<user, view, exiting>>
    /\ loginInflight' = <<>>
    /\ UNCHANGED <<darkMode, employeeId, pin>>
    /\ UNCHANGED notAppVars

\* handleSubmit, the fetch rejected (186-190)
LoginFailed ==
    /\ loginInflight # <<>>
    /\ loginError' = IF loginInflight[1].live THEN "Connection failed" ELSE loginError
    /\ loginInflight' = <<>>
    /\ UNCHANGED <<user, view, darkMode, employeeId, pin, exiting>>
    /\ UNCHANGED notAppVars

\* handleLogout (71-74), its button rendered for a user (95-105)
handleLogout(u, v) == SetAppState(u, v)

Logout ==
    /\ user # <<>>
    /\ handleLogout(<<>>, "login")
    /\ UNCHANGED <<darkMode, employeeId, pin, loginError, loginInflight>>
    /\ UNCHANGED notAppVars

\* the footer button, rendered for an administrator (133-143)
ToggleAdmin ==
    /\ user # <<>> /\ user[1].isAdmin
    /\ SetAppState(user, IF view = "admin" THEN "clock" ELSE "admin")
    /\ UNCHANGED <<darkMode, employeeId, pin, loginError, loginInflight>>
    /\ UNCHANGED notAppVars

\* AdminView's "Back to Clock In" button (542-547)
BackToClock ==
    /\ OnScreen = "admin"
    /\ SetAppState(user, "clock")
    /\ UNCHANGED <<darkMode, employeeId, pin, loginError, loginInflight>>
    /\ UNCHANGED notAppVars

\* the header button (88-93)
ToggleDarkMode ==
    /\ darkMode' = ~darkMode
    /\ UNCHANGED <<user, view, employeeId, pin, loginError, loginInflight, exiting>>
    /\ UNCHANGED notAppVars

\* the exit animation ends and the child is unmounted; a LoginView takes
\* its state with it
ExitComplete ==
    /\ exiting # "none"
    /\ exiting' = "none"
    /\ IF exiting = "login"
       THEN /\ employeeId' = ""
            /\ pin' = ""
            /\ loginError' = ""
            /\ loginInflight' = IF loginInflight = <<>> THEN <<>>
                                ELSE <<[loginInflight[1] EXCEPT !.live = FALSE]>>
       ELSE UNCHANGED <<employeeId, pin, loginError, loginInflight>>
    /\ UNCHANGED <<user, view, darkMode>>
    /\ UNCHANGED notAppVars

NextApp ==
    \/ TypeEmployeeId \/ TypePin \/ LoginSubmit \/ LoginAnswered \/ LoginFailed
    \/ Logout \/ ToggleAdmin \/ BackToClock \/ ToggleDarkMode \/ ExitComplete

----------------------------------------------------------------------------
(* The Netlify function, src/netlify/functions/server.ts *)

Invocations == 1..MaxInvocations

InitNetlify ==
    /\ serverlessHandler = <<>>
    /\ invocation = [i \in Invocations |-> "idle"]
    /\ servedBy = [i \in Invocations |-> 0]
    /\ createAppCalls = 0

\* handler(event, context) up to its await (6-8), or to its end when
\* serverlessHandler is set (7, 11)
Invoke(i) ==
    /\ invocation[i] = "idle"
    /\ IF serverlessHandler = <<>>
       THEN /\ createAppCalls' = createAppCalls + 1
            /\ invocation' = [invocation EXCEPT ![i] = "awaiting"]
            /\ UNCHANGED <<serverlessHandler, servedBy>>
       ELSE /\ invocation' = [invocation EXCEPT ![i] = "done"]
            /\ servedBy' = [servedBy EXCEPT ![i] = serverlessHandler[1]]
            /\ UNCHANGED <<serverlessHandler, createAppCalls>>
    /\ UNCHANGED notNetlifyVars

\* the invocation after its await: the handler over the app it created
\* is stored and called (9-11)
Resume(i) ==
    /\ invocation[i] = "awaiting"
    /\ serverlessHandler' = <<i>>
    /\ servedBy' = [servedBy EXCEPT ![i] = i]
    /\ invocation' = [invocation EXCEPT ![i] = "done"]
    /\ UNCHANGED createAppCalls
    /\ UNCHANGED notNetlifyVars

NextNetlify == \E i \in Invocations : Invoke(i) \/ Resume(i)

----------------------------------------------------------------------------
(* Specifications *)

Init == InitAdmin /\ InitClock /\ InitServer /\ InitApp /\ InitNetlify

SpecServer == Init /\ [][NextServer]_vars

SpecCapture == Init /\ [][NextCapture]_vars

SpecApp == Init /\ [][NextApp]_vars

SpecNetlify == Init /\ [][NextNetlify]_vars

SpecShifts == Init /\ [][NextAdmin]_vars

SpecClock == Init /\ [][NextClock]_vars

----------------------------------------------------------------------------
(* Properties of calculateShifts, checked under SpecShifts *)

\* the fetch has been answered and the shifts on screen derive from logs
Fetched == ~adminLoading /\ logs # <<>>

\* the iterations of the last scan
Steps == 1..Len(sortedLogs)

DurationMs(s) == getTime(s.log.timestamp) - getTime(s.inLog.timestamp)

\* iteration i pushed a shift
Emits(i) == Len(scan[i + 1].shifts) = Len(scan[i].shifts) + 1

\* sortedLogs[j] is the last IN of sortedLogs[i]'s employee scanned before i
MostRecentIn(j, i) ==
    /\ j < i
    /\ sortedLogs[j].type = "IN"
    /\ sortedLogs[j].employee_id = sortedLogs[i].employee_id
    /\ \A k \in (j + 1)..(i - 1) :
          ~(sortedLogs[k].type = "IN"
            /\ sortedLogs[k].employee_id = sortedLogs[i].employee_id)

\* sortedLogs is IN@t1(E), IN@t2(E), OUT@t3(E) with t1 < t2 < t3
InInOut ==
    /\ Len(sortedLogs) = 3
    /\ sortedLogs[1].type = "IN" /\ sortedLogs[2].type = "IN"
    /\ sortedLogs[3].type = "OUT"
    /\ sortedLogs[1].employee_id = sortedLogs[2].employee_id
    /\ sortedLogs[2].employee_id = sortedLogs[3].employee_id
    /\ sortedLogs[1].timestamp < sortedLogs[2].timestamp
    /\ sortedLogs[2].timestamp < sortedLogs[3].timestamp

\* C1: an IN scanned while an earlier IN of the same employee is pending
\* replaces it and pushes no shift; a shift pushed for an OUT pairs it with
\* the most recent IN of its employee scanned before it; IN@t1, IN@t2,
\* OUT@t3 of one employee give exactly one shift, whose IN is the one at t2.
C1_PairsMostRecentIn ==
    /\ \A i \in Steps :
          /\ sortedLogs[i].type = "IN" =>
                /\ scan[i + 1].shifts = scan[i].shifts
                /\ scan[i + 1].lastIn[sortedLogs[i].employee_id] = sortedLogs[i]
          /\ (sortedLogs[i].type = "OUT" /\ Emits(i)) =>
                \E j \in Steps :
                    /\ MostRecentIn(j, i)
                    /\ scan[i + 1].shifts[Len(scan[i + 1].shifts)].inLog = sortedLogs[j]
                    /\ scan[i + 1].shifts[Len(scan[i + 1].shifts)].log = sortedLogs[i]
    /\ InInOut =>
          /\ Len(shifts) = 1
          /\ shifts[1].inLog = sortedLogs[2]
          /\ shifts[1].in = toLocaleTimeString(sortedLogs[2].timestamp)

C1_Witness ==
    /\ Fetched /\ InInOut
    /\ Len(shifts) = 1
    /\ shifts[1].in = toLocaleTimeString(sortedLogs[2].timestamp)

\* iteration i scans an OUT whose employee has no pending IN
OrphanOut(i) ==
    /\ sortedLogs[i].type = "OUT"
    /\ sortedLogs[i].employee_id \notin DOMAIN scan[i].lastIn

\* C2: an OUT scanned when its employee has no pending IN changes neither
\* the pending-IN map nor the shifts pushed so far and pushes nothing; logs
\* holding only OUT events give zero shifts.
C2_OrphanOutIsNoOp ==
    /\ \A i \in Steps : OrphanOut(i) => scan[i + 1] = scan[i]
    /\ (\A n \in 1..Len(logs) : logs[n].type = "OUT") => shifts = <<>>

C2_Witness ==
    /\ Fetched
    /\ \E i \in Steps :
          /\ OrphanOut(i)
          /\ scan[i].shifts # <<>>
          /\ DOMAIN scan[i].lastIn # {}
          /\ scan[i + 1] = scan[i]

\* C3: every shift pairs an IN and an OUT of one employeeId, and scanning
\* an OUT of one employee leaves the pending IN of every other employee as
\* it was.
C3_NoCrossEmployeePairing ==
    /\ \A n \in 1..Len(shifts) :
          /\ shifts[n].inLog.type = "IN"
          /\ shifts[n].log.type = "OUT"
          /\ shifts[n].inLog.employee_id = shifts[n].log.employee_id
          /\ shifts[n].employee = EmployeeName(shifts[n].inLog.employee_id)
    /\ \A i \in Steps :
          sortedLogs[i].type = "OUT" =>
             \A e \in Employees \ {sortedLogs[i].employee_id} :
                /\ (e \in DOMAIN scan[i].lastIn) = (e \in DOMAIN scan[i + 1].lastIn)
                /\ e \in DOMAIN scan[i].lastIn =>
                      scan[i + 1].lastIn[e] = scan[i].lastIn[e]

\* IN(E1), IN(E2), OUT(E1), OUT(E2): two shifts, interleaved in time
C3_Witness ==
    /\ Fetched
    /\ Len(sortedLogs) = 4
    /\ sortedLogs[1].type = "IN" /\ sortedLogs[2].type = "IN"
    /\ sortedLogs[3].type = "OUT" /\ sortedLogs[4].type = "OUT"
    /\ sortedLogs[1].employee_id # sortedLogs[2].employee_id
    /\ sortedLogs[3].employee_id = sortedLogs[1].employee_id
    /\ sortedLogs[4].employee_id = sortedLogs[2].employee_id
    /\ Len(shifts) = 2
    /\ shifts[1].employee # shifts[2].employee

\* C4 as stated: the shifts are listed by non-increasing IN timestamp.
C4_OrderedByInDescending ==
    \A m, n \in 1..Len(shifts) :
        m < n => getTime(shifts[m].inLog.timestamp) >= getTime(shifts[n].inLog.timestamp)

\* C4 amended: the shifts are listed by non-increasing OUT timestamp (the
\* most recently completed shift first), the reverse of the order in which
\* the scan pushed them.
C4_OrderedByOutDescending ==
    /\ \A m, n \in 1..Len(shifts) :
          m < n => getTime(shifts[m].log.timestamp) >= getTime(shifts[n].log.timestamp)
    /\ Len(shifts) = Len(scan[Len(scan)].shifts)
    /\ \A n \in 1..Len(shifts) :
          shifts[n] = scan[Len(scan)].shifts[Len(shifts) + 1 - n]

\* a shift nested inside another employee's shift is listed after it
C4_Witness ==
    /\ Fetched
    /\ Len(shifts) = 2
    /\ shifts[1].inLog.timestamp < shifts[2].inLog.timestamp
    /\ shifts[1].log.timestamp > shifts[2].log.timestamp

PermutationsOf(l) ==
    {[i \in 1..Len(l) |-> l[f[i]]] : f \in Permutations(1..Len(l))}

PushedSeq(ss) == [n \in 1..Len(ss) |-> Pushed(ss[n])]

DistinctTimestamps(l) ==
    \A m, n \in 1..Len(l) : m # n => l[m].timestamp # l[n].timestamp

\* C5 as stated: calculateShifts returns the same sequence for every
\* permutation of the logs, equal timestamps included.
C5_PermutationInvariant ==
    \A p \in PermutationsOf(logs) :
        PushedSeq(calculateShifts(p)) = PushedSeq(shifts)

\* C5 amended: calculateShifts returns the same sequence for every
\* permutation of logs whose timestamps are pairwise distinct.
C5_PermutationInvariantDistinct ==
    DistinctTimestamps(logs) =>
        \A p \in PermutationsOf(logs) :
            PushedSeq(calculateShifts(p)) = PushedSeq(shifts)

C5_Witness ==
    /\ Fetched
    /\ Len(logs) = 4
    /\ DistinctTimestamps(logs)
    /\ Len(shifts) = 2
    /\ \E p \in PermutationsOf(logs) :
          /\ p # logs
          /\ p # sortedLogs
          /\ PushedSeq(calculateShifts(p)) = PushedSeq(shifts)

\* C6: no shift of non-positive duration is pushed (the pushed object has
\* no field that could flag one).
C6_NoNonPositiveShift ==
    \A n \in 1..Len(shifts) : DurationMs(shifts[n]) > 0

\* C7: the OUT timestamp of every shift is at or after its IN timestamp.
C7_NonNegativeDuration ==
    \A n \in 1..Len(shifts) :
        /\ getTime(shifts[n].log.timestamp) >= getTime(shifts[n].inLog.timestamp)
        /\ shifts[n].hours >= 0

\* the response lists the OUT before its IN (descending), the sort restores them
C7_Witness ==
    /\ Fetched
    /\ Len(logs) = 2
    /\ logs[1].type = "OUT" /\ logs[2].type = "IN"
    /\ logs[1].timestamp > logs[2].timestamp
    /\ Len(shifts) = 1
    /\ DurationMs(shifts[1]) > 0

\* seconds from the IN to the OUT of a shift
DurationSec(s) == s.log.timestamp - s.inLog.timestamp

\* C8 as stated: the hours of every shift are exactly (OUT - IN) in hours,
\* and isOvertime holds exactly when those hours exceed 8.
C8_HoursExactAndOvertime ==
    \A n \in 1..Len(shifts) :
        /\ shifts[n].hours * 36 = DurationSec(shifts[n])
        /\ shifts[n].isOvertime = (shifts[n].hours > 800)

\* C8 amended: the hours of every shift are (OUT - IN) in hours rounded to
\* the nearest hundredth, and isOvertime holds exactly when the unrounded
\* OUT - IN exceeds 8 hours: exactly 8 hours is not overtime, anything
\* longer is, also when its hours read 8.00.
C8_HoursRoundedAndOvertime ==
    \A n \in 1..Len(shifts) :
        /\ shifts[n].hours * 36 - DurationSec(shifts[n]) \in (0 - 18)..18
        /\ shifts[n].isOvertime = (DurationSec(shifts[n]) > 8 * 3600)

\* one shift of exactly 8 hours and one of 8 hours 10 seconds, both reading 8.00
C8_Witness ==
    /\ Fetched
    /\ Len(shifts) = 2
    /\ \E m, n \in 1..2 :
          /\ DurationSec(shifts[m]) = 8 * 3600
          /\ shifts[m].hours = 800 /\ ~shifts[m].isOvertime
          /\ DurationSec(shifts[n]) = 8 * 3600 + 10
          /\ shifts[n].hours = 800 /\ shifts[n].isOvertime

----------------------------------------------------------------------------
(* Properties of the geofence status, checked under SpecClock *)

\* the distance from the acquired position to the office
DistanceToOffice ==
    getDistance(location[1].lat, location[1].lng, OFFICE_COORDS.lat, OFFICE_COORDS.lng)

\* C9: once a position is acquired the status is OK exactly when its
\* distance to the office is at most the radius, else Out of Range; a
\* position at exactly the radius and the office itself are OK.
C9_OkIffWithinRadius ==
    geoState = "success" =>
        /\ location # <<>>
        /\ gpsStatus \in {"OK", "Out of Range"}
        /\ (gpsStatus = "OK") = LessEq(DistanceToOffice, Num(GEOFENCE_RADIUS))
        /\ (~location[1].lat.nan /\ Abs(location[1].lat.val) = GEOFENCE_RADIUS)
              => gpsStatus = "OK"
        /\ location[1] = OFFICE_COORDS => gpsStatus = "OK"

C9_Witness ==
    /\ geoState = "success"
    /\ ~location[1].lat.nan
    /\ location[1].lat.val = GEOFENCE_RADIUS
    /\ DistanceToOffice = Num(GEOFENCE_RADIUS)
    /\ gpsStatus = "OK"

\* the submissions made without coordinates
WithoutCoordinates == {n \in 1..Len(requests) : requests[n].latitude.kind = "absent"}

\* C10 as stated: whenever the location is absent the status is Searching,
\* and Searching is the status of every submission made without coordinates.
C10_AbsentIsSearching ==
    /\ location = <<>> => gpsStatus = "Searching"
    /\ \A n \in WithoutCoordinates : requests[n].gpsStatus = "Searching"

\* C10 amended: while the location has not been acquired the status is
\* Searching; after acquisition has failed the location stays absent and the
\* status is Out of Range; it is never OK, and a submission made without
\* coordinates carries the status of the moment it was made.
C10_AbsentIsSearchingOrOutOfRange ==
    /\ (location = <<>>) = (geoState \in {"pending", "error"})
    /\ geoState = "pending" => gpsStatus = "Searching"
    /\ geoState = "error" => gpsStatus = "Out of Range"
    /\ \A n \in WithoutCoordinates :
          /\ requests[n].gpsStatus \in {"Searching", "Out of Range"}
          /\ geoState = "pending" => requests[n].gpsStatus = "Searching"
    /\ inflight # <<>> =>
          /\ inflight[1] = requests[Len(requests)]
          /\ inflight[1].gpsStatus = "Searching" => inflight[1].latitude.kind = "absent"

\* one submission before the geolocation answered, one after it failed
C10_Witness ==
    /\ geoState = "error"
    /\ location = <<>>
    /\ gpsStatus = "Out of Range"
    /\ Len(requests) = 2
    /\ requests[1].latitude.kind = "absent" /\ requests[1].gpsStatus = "Searching"
    /\ requests[2].latitude.kind = "absent" /\ requests[2].gpsStatus = "Out of Range"

\* the reading is no coordinate: NaN, or out of its range
Malformed(coords) ==
    \/ coords.lat.nan \/ coords.lng.nan
    \/ coords.lat.turns # 0 \/ coords.lng.turns # 0

\* C11: a malformed reading (NaN, or a latitude or longitude out of its
\* range) always gets the status Out of Range, never OK.
C11_MalformedIsOutOfRange ==
    (geoState = "success" /\ Malformed(location[1])) => gpsStatus = "Out of Range"

----------------------------------------------------------------------------
(* Properties of the server, checked under SpecServer *)

\* a step of POST /api/clock that answered success
ClockSucceeded == ServerClock /\ response'.status = 200

\* C12: the attendance table is append-only: a successful /api/clock adds
\* exactly one row after the rows there were, and every other step, of any
\* route, leaves every row as it was.
C12_AppendOnly ==
    [][/\ ClockSucceeded =>
            /\ Len(attendance') = Len(attendance) + 1
            /\ SubSeq(attendance', 1, Len(attendance)) = attendance
       /\ ~ClockSucceeded => attendance' = attendance]_vars

\* two rows have been inserted and a read has followed them
C12_Witness == Len(attendance) >= 2 /\ response.route = "export"

\* how often x occurs in seq
Count(seq, x) == Cardinality({i \in DOMAIN seq : seq[i] = x})

\* C14: handlers run one at a time, and what /api/admin/logs answers
\* holds every row committed before it ran exactly once and whole, with
\* the employee's name joined to it, and nothing else.
C14_ReadIsSnapshot ==
    response.route = "logs" =>
        /\ Len(response.rows) = Len(attendance)
        /\ \A i \in DOMAIN attendance :
              Count(response.rows, LogRow(attendance[i])) = 1

\* a read that follows two committed inserts
C14_Witness ==
    /\ response.route = "logs"
    /\ Len(attendance) >= 2
    /\ attendance[1].employee_id # attendance[2].employee_id

\* the request carries every parameter the INSERT binds
Located(body) == body.latitude.kind # "absent" /\ body.longitude.kind # "absent"

\* C15: when the photo of a request the table accepts cannot be written,
\* /api/clock still inserts the row of that request, once, with
\* photo_path null, and answers success.
C15_PhotoFailureStillRecords ==
    [][(ServerClock /\ photoError' /\ Accepts(response'.req) /\ Located(response'.req)) =>
          /\ response'.status = 200
          /\ attendance' = Append(attendance,
                                  AttendanceRow(attendance, response'.req, <<>>, serverNow))
          /\ attendance'[Len(attendance')].photo_path = <<>>]_vars

\* the last request logged a failed photo write and was answered success
C15_Witness ==
    /\ photoError
    /\ response.route = "clock" /\ response.status = 200
    /\ attendance # <<>> /\ attendance[Len(attendance)].photo_path = <<>>

----------------------------------------------------------------------------
(* Properties of ClockView and the server together, checked under SpecCapture *)

\* a column as the number the geofence computes with
ColumnNumber(x) == IF x.kind = "number" THEN Turned(x.val, x.turns) ELSE NaN

\* the label of the row is the one computed for the row's coordinates;
\* a row without coordinates carries a label given without a position
LabelOfStoredCoordinates(row) ==
    IF row.latitude.kind = "number" /\ row.longitude.kind = "number"
    THEN row.gps_status =
            statusOf(getDistance(ColumnNumber(row.latitude), ColumnNumber(row.longitude),
                                 OFFICE_COORDS.lat, OFFICE_COORDS.lng))
    ELSE row.gps_status \in {"Searching", "Out of Range"}

\* C13: every row carries the label ClockView computed for the
\* coordinates stored in that row, the label it was submitted with; no
\* later step changes the label or the coordinates of a row, and
\* /api/admin/logs and /api/export answer with the stored label.
C13_LabelAsCaptured ==
    /\ [](\A i \in DOMAIN attendance :
             /\ LabelOfStoredCoordinates(attendance[i])
             /\ \E n \in DOMAIN requests :
                   /\ attendance[i].gps_status = requests[n].gpsStatus
                   /\ attendance[i].latitude = Bound(requests[n].latitude)
                   /\ attendance[i].longitude = Bound(requests[n].longitude))
    /\ [](response.route = "logs" =>
             \A k \in DOMAIN response.rows :
                \E i \in DOMAIN attendance :
                   /\ response.rows[k].id = attendance[i].id
                   /\ response.rows[k].gps_status = attendance[i].gps_status)
    /\ [][\A i \in DOMAIN attendance :
             /\ attendance'[i].gps_status = attendance[i].gps_status
             /\ attendance'[i].latitude = attendance[i].latitude
             /\ attendance'[i].longitude = attendance[i].longitude]_vars

\* a row labelled OK was stored, another insert followed it, and the
\* rows were read
C13_Witness ==
    /\ response.route = "logs"
    /\ Len(attendance) >= 2
    /\ attendance[1].gps_status = "OK"
    /\ attendance[1].latitude.kind = "number"

----------------------------------------------------------------------------
(* Further properties of ClockView, checked under SpecClock *)

\* C16: with a camera error set a press of Clock In or Clock Out sends no
\* request, sets the error message and leaves loading false; and loading
\* is true only while a request awaits its response, so that it is false
\* once handleClock has finished on any path.
C16_CameraErrorSendsNothing ==
    /\ [](loading <=> inflight # <<>>)
    /\ [][cameraError # <<>> => requests' = requests]_vars
    /\ [][HandleClockNoCamera =>
             /\ requests' = requests /\ inflight' = inflight
             /\ message' = <<"error: camera required">>
             /\ ~loading']_vars

\* the camera failed, a button was pressed, nothing was sent
C16_Witness ==
    /\ cameraError # <<>>
    /\ message = <<"error: camera required">>
    /\ ~loading /\ inflight = <<>> /\ requests = <<>>

\* C20: a submission labelled OK carries a latitude and a longitude, and
\* a submission without coordinates is never labelled OK.
C20_OkCarriesCoordinates ==
    \A n \in DOMAIN requests :
        /\ requests[n].gpsStatus = "OK" =>
              requests[n].latitude.kind = "number" /\ requests[n].longitude.kind = "number"
        /\ (requests[n].latitude.kind = "absent" \/ requests[n].longitude.kind = "absent") =>
              requests[n].gpsStatus # "OK"

\* one submission went out before the position was known, one after it
\* was found in range
C20_Witness ==
    /\ Len(requests) >= 2
    /\ requests[1].latitude.kind = "absent"
    /\ requests[2].gpsStatus = "OK"

----------------------------------------------------------------------------
(* The reference pairing, checked under SpecShifts *)

\* the events of l[j]'s employee earlier than l[j]
EarlierOf(l, j) ==
    {i \in DOMAIN l : l[i].employee_id = l[j].employee_id /\ l[i].timestamp < l[j].timestamp}

\* l[i] is the event of l[j]'s employee immediately preceding l[j]
ImmediatelyPrecedes(l, i, j) ==
    /\ i \in EarlierOf(l, j)
    /\ \A k \in EarlierOf(l, j) : l[k].timestamp <= l[i].timestamp

\* the pairs of the reference: an OUT with the IN immediately preceding it
ReferencePairs(l) ==
    {<<l[p[1]], l[p[2]]>> : p \in
        {p \in (DOMAIN l) \X (DOMAIN l) :
            /\ l[p[2]].type = "OUT"
            /\ l[p[1]].type = "IN"
            /\ ImmediatelyPrecedes(l, p[1], p[2])}}

\* the events the shifts on screen were built from
ShiftPairs == {<<shifts[n].inLog, shifts[n].log>> : n \in DOMAIN shifts}

\* C17: for logs with pairwise distinct timestamps calculateShifts
\* returns one shift per pair of the reference and no other: an OUT gives
\* a shift exactly when the event of its employee immediately before it
\* is an IN, paired with that IN, and no event is in two shifts.
C17_EqualsReference ==
    DistinctTimestamps(logs) =>
        /\ ShiftPairs = ReferencePairs(logs)
        /\ Len(shifts) = Cardinality(ReferencePairs(logs))
        /\ \A n \in DOMAIN shifts : shifts[n] = Shift(shifts[n].inLog, shifts[n].log)
        /\ \A m, n \in DOMAIN shifts :
              m # n => /\ shifts[m].inLog # shifts[n].inLog
                       /\ shifts[m].log # shifts[n].log

\* IN, OUT, OUT of one employee: one shift
C17_Witness ==
    /\ ~adminLoading
    /\ DistinctTimestamps(logs)
    /\ Len(logs) = 3
    /\ \A n \in DOMAIN logs : logs[n].employee_id = "EMP001"
    /\ logs[3].type = "IN" /\ logs[2].type = "OUT" /\ logs[1].type = "OUT"
    /\ Len(shifts) = 1

----------------------------------------------------------------------------
(* Properties of App, checked under SpecApp *)

\* C18: the admin view is held only by a logged-in administrator and the
\* clock view only by a logged-in user.
C18_ViewMatchesUser ==
    /\ view = "admin" => (user # <<>> /\ user[1].isAdmin)
    /\ view = "clock" => user # <<>>

----------------------------------------------------------------------------
(* Properties of the Netlify function, checked under SpecNetlify *)

\* C19: createApp is called at most once, and the invocations that have
\* finished were all served by the same serverlessHandler.
C19_CreateAppOnce ==
    /\ createAppCalls <= 1
    /\ \A i, j \in Invocations :
          (invocation[i] = "done" /\ invocation[j] = "done") => servedBy[i] = servedBy[j]

=============================================================================
